---- MODULE Spec2Model ----
(***************************************************************************)
(* Model of task_2_mapreduce_word_counter.py: the main block fetches a     *)
(* text, map_reduce tokenizes it and counts the words with a map stage and *)
(* a reduce stage run on ThreadPoolExecutor pools, and visualize_top_words *)
(* ranks the counts and prints / charts the top ones.                      *)
(*                                                                         *)
(* A character is its code point, a str is a sequence of code points, a    *)
(* list or tuple is a sequence, and a dict is the sequence of its          *)
(* <<key, value>> items in insertion order (Python dicts keep it).         *)
(***************************************************************************)
EXTENDS Naturals, Sequences, FiniteSets

(***************************************************************************)
(* Bounds of the model.                                                    *)
(***************************************************************************)
\* a fetched text is a concatenation of at most MaxChunks chunks of Chunks
MaxChunks == 3
\* worker threads of one ThreadPoolExecutor
MaxWorkers == 2
\* the top_n values passed to visualize_top_words are 1..MaxTopN
MaxTopN == 3

(***************************************************************************)
(* Characters.                                                             *)
(***************************************************************************)
\* string.punctuation: !"#$%&'()*+,-./  :;<=>?@  [\]^_`  {|}~
punctuation == (33..47) \cup (58..64) \cup (91..96) \cup (123..126)

\* the ASCII characters str.split() treats as separators:
\* \t \n \v \f \r, the separators FS GS RS US, and the space
whitespace == (9..13) \cup (28..32)

\* "abcd ", "Abcd\n", "cat ", "ab-", "\t. "
Chunks ==
    { <<97, 98, 99, 100, 32>>,
      <<65, 98, 99, 100, 10>>,
      <<99, 97, 116, 32>>,
      <<97, 98, 45>>,
      <<9, 46, 32>> }

RECURSIVE Concat(_)
Concat(cs) == IF cs = <<>> THEN <<>> ELSE Head(cs) \o Concat(Tail(cs))

\* the texts response.text may hold
Texts ==
    { Concat(cs) : cs \in UNION { [1..n -> Chunks] : n \in 0..MaxChunks } }

(***************************************************************************)
(* Pure functions of the pipeline.                                         *)
(***************************************************************************)
\* text.translate(str.maketrans("", "", string.punctuation)): every
\* punctuation character is deleted, nothing is put in its place
RECURSIVE remove_punctuation(_)
remove_punctuation(t) ==
    IF t = <<>> THEN <<>>
    ELSE IF Head(t) \in punctuation THEN remove_punctuation(Tail(t))
    ELSE <<Head(t)>> \o remove_punctuation(Tail(t))

\* str.split() with no separator: scan the characters, a whitespace
\* character ends the current word (if any), any other one extends it
RECURSIVE SplitFrom(_, _, _)
SplitFrom(t, cur, out) ==
    IF t = <<>> THEN (IF cur = <<>> THEN out ELSE Append(out, cur))
    ELSE IF Head(t) \in whitespace
         THEN SplitFrom(Tail(t), <<>>,
                        IF cur = <<>> THEN out ELSE Append(out, cur))
         ELSE SplitFrom(Tail(t), Append(cur, Head(t)), out)

split(t) == SplitFrom(t, <<>>, <<>>)

\* variant: the filter the stale comment of line 83 describes
LongEnough_five(word) == Len(word) >= 5

\* the filter of the list comprehension: len(word) >= 4
LongEnough(word) == Len(word) >= 4

\* words = [word for word in text.split() if len(word) >= 4]
Tokenize(t) == SelectSeq(split(remove_punctuation(t)), LongEnough)

\* map_function: (word, 1)
map_function(word) == <<word, 1>>

\* index of key among the items of a dict, 0 when it is not a key
IndexOf(items, key) ==
    IF \E i \in 1..Len(items) : items[i][1] = key
    THEN CHOOSE i \in 1..Len(items) : items[i][1] = key
    ELSE 0

\* variant: shuffled[key] = [value], the list of a known key is replaced
AppendValue_overwrite(shuffled, key, value) ==
    LET i == IndexOf(shuffled, key) IN
    IF i = 0 THEN Append(shuffled, <<key, <<value>>>>)
    ELSE [shuffled EXCEPT ![i] = <<key, <<value>>>>]

\* shuffled[key].append(value) on a defaultdict(list): a new key is
\* inserted last with the list [value], a known key keeps its place
AppendValue(shuffled, key, value) ==
    LET i == IndexOf(shuffled, key) IN
    IF i = 0 THEN Append(shuffled, <<key, <<value>>>>)
    ELSE [shuffled EXCEPT ![i] = <<key, Append(shuffled[i][2], value)>>]

RECURSIVE ShuffleFrom(_, _)
ShuffleFrom(mapped, shuffled) ==
    IF mapped = <<>> THEN shuffled
    ELSE ShuffleFrom(Tail(mapped),
                     AppendValue(shuffled, Head(mapped)[1], Head(mapped)[2]))

shuffle_function(mapped) == ShuffleFrom(mapped, <<>>)

\* sum(values)
RECURSIVE sum(_)
sum(values) == IF values = <<>> THEN 0 ELSE Head(values) + sum(Tail(values))

\* variant: the first contribution instead of the sum
reduce_function_first(key_values) == <<key_values[1], Head(key_values[2])>>

\* reduce_function: (key, sum(values))
reduce_function(key_values) == <<key_values[1], sum(key_values[2])>>

\* d[key] = value: a known key keeps its place and takes the new value
SetItem(d, key, value) ==
    LET i == IndexOf(d, key) IN
    IF i = 0 THEN Append(d, <<key, value>>)
    ELSE [d EXCEPT ![i] = <<key, value>>]

\* dict(pairs)
RECURSIVE DictFrom(_, _)
DictFrom(pairs, d) ==
    IF pairs = <<>> THEN d
    ELSE DictFrom(Tail(pairs), SetItem(d, Head(pairs)[1], Head(pairs)[2]))

dict(pairs) == DictFrom(pairs, <<>>)

\* variant: an unstable descending sort, an item goes before its ties
InsertDesc_unstable(sorted, item) ==
    LET n == Cardinality({i \in 1..Len(sorted) : sorted[i][2] > item[2]}) IN
    SubSeq(sorted, 1, n) \o <<item>> \o SubSeq(sorted, n + 1, Len(sorted))

\* list.sort with key = item[1], reverse = True: a stable sort, an item
\* goes behind every item already placed whose total is >= its own
InsertDesc(sorted, item) ==
    LET n == Cardinality({i \in 1..Len(sorted) : sorted[i][2] >= item[2]}) IN
    SubSeq(sorted, 1, n) \o <<item>> \o SubSeq(sorted, n + 1, Len(sorted))

RECURSIVE SortFrom(_, _)
SortFrom(items, sorted) ==
    IF items = <<>> THEN sorted
    ELSE SortFrom(Tail(items), InsertDesc(sorted, Head(items)))

sorted_desc(items) == SortFrom(items, <<>>)

\* variant: seq[:n - 1]
Slice_short(seq, n) == SubSeq(seq, 1, IF n - 1 < Len(seq) THEN n - 1 ELSE Len(seq))

\* seq[:n] for n >= 0
Slice(seq, n) == SubSeq(seq, 1, IF n < Len(seq) THEN n ELSE Len(seq))

\* sorted(word_freq.items(), key=lambda item: item[1], reverse=True)[:top_n]
TopWords(word_freq, n) == Slice(sorted_desc(word_freq), n)

(***************************************************************************)
(* State.                                                                  *)
(***************************************************************************)
VARIABLES
    pc,              \* where the main thread is
    text,            \* what get_text returned: [none, s]
    words,           \* the filtered tokens of map_reduce
    mapStatus,       \* state of the future of each map task
    mapOut,          \* result stored in the future of each map task
    mapped_values,   \* results the main thread has taken from executor.map
    shuffled_values, \* the items of the shuffled dict
    redStatus,       \* state of the future of each reduce task
    redOut,          \* result stored in the future of each reduce task
    reduced_values,  \* results the main thread has taken from executor.map
    result,          \* the dict map_reduce returned
    called,          \* map_reduce was invoked
    returned,        \* map_reduce returned
    top_n,           \* the top_n visualize_top_words was called with
    sorted_words,    \* the ranked words of visualize_top_words
    printed,         \* the "word: freq" lines printed
    charted,         \* plt.show() was reached
    doneOrder,       \* history: the tasks in the order they finished
    raised,          \* where the exception caught by the main block came from
    log              \* the logging.error calls, by function

vars == <<pc, text, words, mapStatus, mapOut, mapped_values, shuffled_values,
          redStatus, redOut, reduced_values, result, called, returned,
          top_n, sorted_words, printed, charted, doneOrder, raised,
          log>>

mapVars == <<words, mapStatus, mapOut, mapped_values>>
redVars == <<shuffled_values, redStatus, redOut, reduced_values>>
outVars == <<result, returned, top_n, sorted_words, printed, charted>>
histVars == <<called, doneOrder>>

None == [none |-> TRUE, s |-> <<>>]
Str(t) == [none |-> FALSE, s |-> t]

\* variant: map_reduce is called without looking at the text
Truthy_unchecked(t) == TRUE

\* `if text:` is false for None and for the empty string
Truthy(t) == ~t.none /\ t.s # <<>>

Init ==
    /\ pc = "get_text"
    /\ text = None
    /\ words = <<>>
    /\ mapStatus = <<>>
    /\ mapOut = <<>>
    /\ mapped_values = <<>>
    /\ shuffled_values = <<>>
    /\ redStatus = <<>>
    /\ redOut = <<>>
    /\ reduced_values = <<>>
    /\ result = <<>>
    /\ called = FALSE
    /\ returned = FALSE
    /\ top_n = 0
    /\ sorted_words = <<>>
    /\ printed = <<>>
    /\ charted = FALSE
    /\ doneOrder = <<>>
    /\ raised = "none"
    /\ log = <<>>

(***************************************************************************)
(* get_text and the main block.                                            *)
(***************************************************************************)
\* requests.get succeeded and raise_for_status passed: response.text
GetTextOk(t) ==
    /\ pc = "get_text"
    /\ text' = Str(t)
    /\ pc' = "main"
    /\ UNCHANGED <<mapVars, redVars, outVars, histVars, raised, log>>

\* requests.RequestException: logged, None returned
GetTextFail ==
    /\ pc = "get_text"
    /\ text' = None
    /\ log' = Append(log, "get_text")
    /\ pc' = "main"
    /\ UNCHANGED <<mapVars, redVars, outVars, histVars, raised>>

\* else: raise ValueError, caught and logged by the main block
MainNoText ==
    /\ pc = "main"
    /\ ~Truthy(text)
    /\ raised' = "no_text"
    /\ log' = Append(log, "main")
    /\ pc' = "ended"
    /\ UNCHANGED <<text, mapVars, redVars, outVars, histVars>>

(***************************************************************************)
(* executor.map and the pool.                                              *)
(***************************************************************************)
\* executor.map submits one future per item; the items are queued in order
Submit(items) == [i \in 1..Len(items) |-> "pending"]
NoResults(items) == [i \in 1..Len(items) |-> <<>>]

Running(status) == {i \in 1..Len(status) : status[i] = "running"}

\* a worker thread takes the head of the work queue
CanStart(status, i) ==
    /\ i \in 1..Len(status)
    /\ status[i] = "pending"
    /\ \A j \in 1..(i - 1) : status[j] # "pending"
    /\ Cardinality(Running(status)) < MaxWorkers

\* the result iterator yields the futures' results in submission order:
\* the next one is the future after those already taken
NextFuture(taken) == Len(taken) + 1

\* future.result() returns once the future is done, with its result
HasResult(status, i) == i \in 1..Len(status) /\ status[i] = "done"

\* future.result() re-raises the exception of the task
HasException(status, i) == i \in 1..Len(status) /\ status[i] = "failed"

\* variant: the iterator stops one result early
Exhausted_early(status, taken) == Len(taken) + 1 >= Len(status)

\* the iterator was exhausted: every future's result was taken
Exhausted(status, taken) == Len(taken) = Len(status)

\* the finally of the result iterator: future.cancel() on the futures
\* left, which cancels the ones no worker has started
CancelLeft(status) ==
    [i \in 1..Len(status) |->
        IF status[i] = "pending" THEN "cancelled" ELSE status[i]]

\* executor.__exit__: shutdown(wait=True) joins the worker threads
Joined(status) == Running(status) = {}

(***************************************************************************)
(* map_reduce: tokenizing and the map stage.                               *)
(***************************************************************************)
\* lines 80-88 up to the submission of the map tasks
CallMapReduce ==
    /\ pc = "main"
    /\ Truthy(text)
    /\ called' = TRUE
    /\ words' = Tokenize(text.s)
    /\ mapStatus' = Submit(words')
    /\ mapOut' = NoResults(words')
    /\ mapped_values' = <<>>
    /\ pc' = "map"
    /\ UNCHANGED <<text, redVars, outVars, doneOrder, raised, log>>

MapStart(i) ==
    /\ pc \in {"map", "map_exit"}
    /\ CanStart(mapStatus, i)
    /\ mapStatus' = [mapStatus EXCEPT ![i] = "running"]
    /\ UNCHANGED <<pc, text, words, mapOut, mapped_values, redVars, outVars,
                   histVars, raised, log>>

\* variant: the tasks read a variable shared with the submitting loop, so a
\* task maps the word of the last task started
MapFinish_late(i) ==
    /\ i \in Running(mapStatus)
    /\ LET last == CHOOSE j \in Running(mapStatus) :
                       \A k \in Running(mapStatus) : k <= j
       IN  mapOut' = [mapOut EXCEPT ![i] = map_function(words[last])]
    /\ mapStatus' = [mapStatus EXCEPT ![i] = "done"]
    /\ doneOrder' = Append(doneOrder, <<"map", i>>)
    /\ UNCHANGED <<pc, text, words, mapped_values, redVars, outVars,
                   called, raised, log>>

MapFinish(i) ==
    /\ i \in Running(mapStatus)
    /\ mapOut' = [mapOut EXCEPT ![i] = map_function(words[i])]
    /\ mapStatus' = [mapStatus EXCEPT ![i] = "done"]
    /\ doneOrder' = Append(doneOrder, <<"map", i>>)
    /\ UNCHANGED <<pc, text, words, mapped_values, redVars, outVars,
                   called, raised, log>>

\* the task raised: the exception is stored in its future
MapFail(i) ==
    /\ i \in Running(mapStatus)
    /\ mapStatus' = [mapStatus EXCEPT ![i] = "failed"]
    /\ UNCHANGED <<pc, text, words, mapOut, mapped_values, redVars, outVars,
                   histVars, raised, log>>

\* list(...) takes the next result
MapCollect ==
    /\ pc = "map"
    /\ HasResult(mapStatus, NextFuture(mapped_values))
    /\ mapped_values' = Append(mapped_values, mapOut[NextFuture(mapped_values)])
    /\ UNCHANGED <<pc, text, words, mapStatus, mapOut, redVars, outVars,
                   histVars, raised, log>>

\* list(...) meets a failed task: the exception leaves the with block
MapRaise ==
    /\ pc = "map"
    /\ HasException(mapStatus, NextFuture(mapped_values))
    /\ mapStatus' = CancelLeft(mapStatus)
    /\ pc' = "map_exit"
    /\ UNCHANGED <<text, words, mapOut, mapped_values, redVars, outVars,
                   histVars, raised, log>>

\* variant: the exception is swallowed and the results taken so far go on
MapAbort_partial ==
    /\ pc = "map_exit"
    /\ Joined(mapStatus)
    /\ pc' = "shuffle"
    /\ UNCHANGED <<text, mapVars, redVars, outVars, histVars, raised, log>>

\* the pool has shut down; the exception reaches the main block's except
MapAbort ==
    /\ pc = "map_exit"
    /\ Joined(mapStatus)
    /\ raised' = "map"
    /\ log' = Append(log, "main")
    /\ pc' = "ended"
    /\ UNCHANGED <<text, mapVars, redVars, outVars, histVars>>

\* every result was taken and the pool has shut down
MapJoin ==
    /\ pc = "map"
    /\ Exhausted(mapStatus, mapped_values)
    /\ Joined(mapStatus)
    /\ pc' = "shuffle"
    /\ UNCHANGED <<text, mapVars, redVars, outVars, histVars, raised, log>>

(***************************************************************************)
(* map_reduce: the shuffle and the reduce stage.                           *)
(***************************************************************************)
\* lines 91-95 up to the submission of the reduce tasks
Shuffle ==
    /\ pc = "shuffle"
    /\ shuffled_values' = shuffle_function(mapped_values)
    /\ redStatus' = Submit(shuffled_values')
    /\ redOut' = NoResults(shuffled_values')
    /\ reduced_values' = <<>>
    /\ pc' = "reduce"
    /\ UNCHANGED <<text, mapVars, outVars, histVars, raised, log>>

ReduceStart(i) ==
    /\ pc \in {"reduce", "reduce_exit"}
    /\ CanStart(redStatus, i)
    /\ redStatus' = [redStatus EXCEPT ![i] = "running"]
    /\ UNCHANGED <<pc, text, mapVars, shuffled_values, redOut, reduced_values,
                   outVars, histVars, raised, log>>

ReduceFinish(i) ==
    /\ i \in Running(redStatus)
    /\ redOut' = [redOut EXCEPT ![i] = reduce_function(shuffled_values[i])]
    /\ redStatus' = [redStatus EXCEPT ![i] = "done"]
    /\ doneOrder' = Append(doneOrder, <<"reduce", i>>)
    /\ UNCHANGED <<pc, text, mapVars, shuffled_values, reduced_values,
                   outVars, called, raised, log>>

ReduceFail(i) ==
    /\ i \in Running(redStatus)
    /\ redStatus' = [redStatus EXCEPT ![i] = "failed"]
    /\ UNCHANGED <<pc, text, mapVars, shuffled_values, redOut, reduced_values,
                   outVars, histVars, raised, log>>

ReduceCollect ==
    /\ pc = "reduce"
    /\ HasResult(redStatus, NextFuture(reduced_values))
    /\ reduced_values' =
           Append(reduced_values, redOut[NextFuture(reduced_values)])
    /\ UNCHANGED <<pc, text, mapVars, shuffled_values, redStatus, redOut,
                   outVars, histVars, raised, log>>

ReduceRaise ==
    /\ pc = "reduce"
    /\ HasException(redStatus, NextFuture(reduced_values))
    /\ redStatus' = CancelLeft(redStatus)
    /\ pc' = "reduce_exit"
    /\ UNCHANGED <<text, mapVars, shuffled_values, redOut, reduced_values,
                   outVars, histVars, raised, log>>

ReduceAbort ==
    /\ pc = "reduce_exit"
    /\ Joined(redStatus)
    /\ raised' = "reduce"
    /\ log' = Append(log, "main")
    /\ pc' = "ended"
    /\ UNCHANGED <<text, mapVars, redVars, outVars, histVars>>

\* every result was taken, the pool has shut down: return dict(reduced_values)
ReduceJoin ==
    /\ pc = "reduce"
    /\ Exhausted(redStatus, reduced_values)
    /\ Joined(redStatus)
    /\ result' = dict(reduced_values)
    /\ returned' = TRUE
    /\ pc' = "visualize"
    /\ UNCHANGED <<text, mapVars, redVars, top_n, sorted_words, printed,
                   charted, histVars, raised, log>>

(***************************************************************************)
(* visualize_top_words.                                                    *)
(***************************************************************************)
\* words, frequencies = zip(*sorted_words) unpacks two tuples
Unpacks(ranked) == ranked # <<>>

\* the words are ranked, printed and charted
Visualize(n) ==
    /\ pc = "visualize"
    /\ Unpacks(TopWords(result, n))
    /\ top_n' = n
    /\ sorted_words' = TopWords(result, n)
    /\ printed' = sorted_words'
    /\ charted' = TRUE
    /\ pc' = "ended"
    /\ UNCHANGED <<text, mapVars, redVars, result, returned, histVars, raised,
                   log>>

\* zip(*[]) yields nothing: the unpacking raises ValueError, which the
\* main block catches and logs
VisualizeRaise(n) ==
    /\ pc = "visualize"
    /\ ~Unpacks(TopWords(result, n))
    /\ top_n' = n
    /\ sorted_words' = TopWords(result, n)
    /\ raised' = "unpack"
    /\ log' = Append(log, "main")
    /\ pc' = "ended"
    /\ UNCHANGED <<text, mapVars, redVars, result, returned, printed, charted,
                   histVars>>

(***************************************************************************)
(* Specifications.                                                         *)
(***************************************************************************)
MainThread ==
    \/ \E t \in Texts : GetTextOk(t)
    \/ GetTextFail
    \/ MainNoText
    \/ CallMapReduce
    \/ MapCollect
    \/ MapRaise
    \/ MapAbort
    \/ MapJoin
    \/ Shuffle
    \/ ReduceCollect
    \/ ReduceRaise
    \/ ReduceAbort
    \/ ReduceJoin
    \/ \E n \in 1..MaxTopN : Visualize(n)
    \/ \E n \in 1..MaxTopN : VisualizeRaise(n)

\* a worker thread takes a task or returns from one
Workers ==
    \/ \E i \in 1..Len(mapStatus) : MapStart(i)
    \/ \E i \in 1..Len(mapStatus) : MapFinish(i)
    \/ \E i \in 1..Len(redStatus) : ReduceStart(i)
    \/ \E i \in 1..Len(redStatus) : ReduceFinish(i)

\* a task raises
Failures ==
    \/ \E i \in 1..Len(mapStatus) : MapFail(i)
    \/ \E i \in 1..Len(redStatus) : ReduceFail(i)

Next == MainThread \/ Workers \/ Failures

Spec == Init /\ [][Next]_vars

\* the main thread and the pool's threads are scheduled while they can run
FairSpec == Spec /\ WF_vars(MainThread) /\ WF_vars(Workers)

(***************************************************************************)
(* Helpers of the properties.                                              *)
(***************************************************************************)
Range(seq) == {seq[i] : i \in 1..Len(seq)}
Keys(items) == [i \in 1..Len(items) |-> items[i][1]]

RECURSIVE SumTotals(_)
SumTotals(items) ==
    IF items = <<>> THEN 0 ELSE Head(items)[2] + SumTotals(Tail(items))

RECURSIVE SumLens(_)
SumLens(groups) ==
    IF groups = <<>> THEN 0 ELSE Len(Head(groups)[2]) + SumLens(Tail(groups))

Occurrences(ws, w) == Cardinality({i \in 1..Len(ws) : ws[i] = w})

\* a single-pass frequency count, as a set of <<word, count>>
DirectCount(ws) == {<<w, Occurrences(ws, w)>> : w \in Range(ws)}

FirstIndex(ws, w) ==
    CHOOSE i \in 1..Len(ws) : ws[i] = w /\ \A j \in 1..(i - 1) : ws[j] # w

\* keys are the distinct words of ws in the order of their first appearance
InFirstSeenOrder(keys, ws) ==
    /\ Range(keys) = Range(ws)
    /\ \A a, b \in 1..Len(keys) :
           a < b => FirstIndex(ws, keys[a]) < FirstIndex(ws, keys[b])

Failed(status) == \E i \in 1..Len(status) : status[i] = "failed"
AllDone(status) == \A i \in 1..Len(status) : status[i] = "done"

\* the shuffle has run; the map stage has been left without an exception
AfterShuffle ==
    pc \in {"reduce", "reduce_exit", "visualize"} \/ returned \/ raised = "reduce"
AfterMap == pc = "shuffle" \/ AfterShuffle

Ranked == pc = "ended" /\ returned

(***************************************************************************)
(* C1: once map_reduce has returned, the totals of the returned mapping    *)
(* sum to the number of filtered tokens, and after the shuffle the groups' *)
(* contribution lists hold exactly one contribution per token.             *)
(***************************************************************************)
C1_TotalsSumToTokens ==
    /\ AfterShuffle => SumLens(shuffled_values) = Len(words)
    /\ returned => SumTotals(result) = Len(words)

C1_Witness ==
    /\ returned
    /\ Len(words) >= 3
    /\ Len(result) = 2

(***************************************************************************)
(* C2: the mapping map_reduce returns is the direct frequency count of the *)
(* token sequence: one entry per distinct word, holding its number of      *)
(* occurrences.                                                            *)
(***************************************************************************)
C2_EqualsDirectCount ==
    returned =>
        /\ Range(result) = DirectCount(words)
        /\ Len(result) = Cardinality(Range(words))

C2_Witness ==
    /\ returned
    /\ \E w \in Range(words) : Occurrences(words, w) >= 2
    /\ \E w \in Range(words) : Occurrences(words, w) = 1

(***************************************************************************)
(* C3: a run on an empty text, or on a text none of whose tokens passes    *)
(* the length filter, ends with an empty ranking and without an error      *)
(* being raised or logged.                                                 *)
(***************************************************************************)
C3_EmptyInputEndsClean ==
    (/\ pc = "ended"
     /\ ~text.none
     /\ Tokenize(text.s) = <<>>)
    => (raised = "none" /\ log = <<>> /\ sorted_words = <<>>)

(***************************************************************************)
(* C4: once a map or reduce task has raised, no later stage runs: after a  *)
(* map failure nothing is shuffled, after any failure map_reduce does not  *)
(* return and nothing is ranked, printed or charted, the run ends with the *)
(* exception logged by the main block, and a failed task never runs again. *)
(***************************************************************************)
C4_FailureAborts ==
    /\ [](Failed(mapStatus) =>
            ~AfterMap /\ shuffled_values = <<>> /\ redStatus = <<>>)
    /\ [](Failed(mapStatus) \/ Failed(redStatus) =>
            /\ ~returned
            /\ pc # "visualize"
            /\ sorted_words = <<>> /\ printed = <<>> /\ ~charted
            /\ (pc = "ended" =>
                  raised \in {"map", "reduce"} /\ log = <<"main">>))
    /\ [][/\ \A i \in 1..Len(mapStatus) :
                mapStatus[i] = "failed" => mapStatus'[i] = "failed"
          /\ \A i \in 1..Len(redStatus) :
                redStatus[i] = "failed" => redStatus'[i] = "failed"]_vars

C4_Witness ==
    /\ pc = "ended"
    /\ raised = "reduce"
    /\ \E i \in 1..Len(redStatus) : redStatus[i] = "done"

(***************************************************************************)
(* C5: the shuffle starts only when every map task is done and its result  *)
(* taken, reduce tasks exist only once the shuffle has grouped every pair, *)
(* map_reduce returns only when every reduce task is done, and a run in    *)
(* which no task raises reaches its end.                                   *)
(***************************************************************************)
C5_Barriers ==
    /\ AfterMap => AllDone(mapStatus) /\ Len(mapped_values) = Len(words)
    /\ redStatus # <<>> =>
           AfterShuffle /\ SumLens(shuffled_values) = Len(mapped_values)
    /\ returned =>
           AllDone(redStatus) /\ Len(reduced_values) = Len(shuffled_values)

C5_BarriersAndTermination ==
    /\ []C5_Barriers
    /\ <>(Failed(mapStatus) \/ Failed(redStatus) \/ pc = "ended")

C5_Witness ==
    /\ pc = "ended"
    /\ raised = "none"
    /\ Len(words) >= 3
    /\ Len(shuffled_values) >= 2

(***************************************************************************)
(* C6: whatever the interleaving of the tasks, the mapping map_reduce      *)
(* returns is the one the stages give when applied one item after the      *)
(* other, and a step of a task writes the result slot of that task only.   *)
(***************************************************************************)
MapSeq(f(_), seq) == [i \in 1..Len(seq) |-> f(seq[i])]

SequentialMapReduce(t) ==
    dict(MapSeq(reduce_function,
                shuffle_function(MapSeq(map_function, Tokenize(t)))))

OwnSlotOnly(status, out, status2, out2) ==
    Len(out2) = Len(out) =>
        \A i \in 1..Len(out) :
            out2[i] # out[i] =>
                /\ status[i] = "running" /\ status2[i] = "done"
                /\ \A j \in 1..Len(out) : j # i => out2[j] = out[j]

C6_InterleavingIndependent ==
    /\ [](returned => Range(result) = Range(SequentialMapReduce(text.s)))
    /\ [][/\ OwnSlotOnly(mapStatus, mapOut, mapStatus', mapOut')
          /\ OwnSlotOnly(redStatus, redOut, redStatus', redOut')]_vars

\* map_reduce returned after the second of two map tasks with different
\* words finished before the first
C6_Witness ==
    /\ returned
    /\ Len(words) >= 2
    /\ words[1] # words[2]
    /\ \E a, b \in 1..Len(doneOrder) :
           a < b /\ doneOrder[a] = <<"map", 2>> /\ doneOrder[b] = <<"map", 1>>

(***************************************************************************)
(* C7: the ranking holds min(top_n, distinct words) entries of the         *)
(* mapping, in non-increasing order of total; no word left out has a       *)
(* larger total than a word kept; with top_n at least the number of        *)
(* distinct words every word is kept; a non-empty ranking raises nothing.  *)
(***************************************************************************)
Min(a, b) == IF a < b THEN a ELSE b

C7_Ranking ==
    Ranked =>
        /\ Len(sorted_words) = Min(top_n, Len(result))
        /\ Range(sorted_words) \subseteq Range(result)
        /\ Cardinality(Range(sorted_words)) = Len(sorted_words)
        /\ \A i, j \in 1..Len(sorted_words) :
               i < j => sorted_words[i][2] >= sorted_words[j][2]
        /\ \A out \in Range(result) \ Range(sorted_words) :
               \A in \in Range(sorted_words) : out[2] <= in[2]
        /\ top_n >= Len(result) => Range(sorted_words) = Range(result)
        /\ sorted_words # <<>> => raised = "none" /\ printed = sorted_words

\* a ranking that reorders the words and drops one
C7_Witness ==
    /\ Ranked
    /\ top_n < Len(result)
    /\ sorted_words[1] # result[1]

(***************************************************************************)
(* C8: the results of the map tasks are taken in token order, the groups   *)
(* and the reduced pairs are in order of first appearance of their word,   *)
(* so are the keys of the returned mapping, and ranked words with equal    *)
(* totals stand in order of first appearance.                              *)
(***************************************************************************)
C8_FirstAppearanceOrder ==
    /\ Len(mapped_values) <= Len(words)
    /\ \A i \in 1..Len(mapped_values) : mapped_values[i][1] = words[i]
    /\ AfterShuffle => InFirstSeenOrder(Keys(shuffled_values), words)
    /\ Len(reduced_values) <= Len(shuffled_values)
    /\ \A i \in 1..Len(reduced_values) :
           reduced_values[i][1] = shuffled_values[i][1]
    /\ returned => InFirstSeenOrder(Keys(result), words)
    /\ \A i, j \in 1..Len(sorted_words) :
           i < j /\ sorted_words[i][2] = sorted_words[j][2] =>
               FirstIndex(words, sorted_words[i][1])
                   < FirstIndex(words, sorted_words[j][1])

\* two tied words were ranked
C8_Witness ==
    /\ Ranked
    /\ \E i, j \in 1..Len(sorted_words) :
           i < j /\ sorted_words[i][2] = sorted_words[j][2]

(***************************************************************************)
(* C9: when get_text fails, the failure is logged, map_reduce is never     *)
(* invoked, nothing is ranked, printed or charted, and the run ends.       *)
(***************************************************************************)
FetchFailed == pc # "get_text" /\ text.none

C9_FetchFailureStops ==
    /\ [](FetchFailed =>
            /\ ~called /\ ~returned
            /\ sorted_words = <<>> /\ printed = <<>> /\ ~charted
            /\ log # <<>> /\ log[1] = "get_text")
    /\ (FetchFailed ~> (pc = "ended" /\ raised = "no_text"))

C9_Witness == FetchFailed /\ pc = "ended"

(***************************************************************************)
(* C10: the tokens given to the map stage are, in order, the maximal runs  *)
(* of non-whitespace characters of the text with its punctuation           *)
(* characters deleted, a run being kept iff it has at least 4 characters.  *)
(***************************************************************************)
Stripped(t) == SelectSeq(t, LAMBDA c : c \notin punctuation)

\* <<i, j>>: t[i..j] is a maximal run of non-whitespace characters
Runs(t) ==
    {r \in (1..Len(t)) \X (1..Len(t)) :
        /\ r[1] <= r[2]
        /\ \A k \in r[1]..r[2] : t[k] \notin whitespace
        /\ (r[1] = 1 \/ t[r[1] - 1] \in whitespace)
        /\ (r[2] = Len(t) \/ t[r[2] + 1] \in whitespace)}

KeptRuns(t) == {r \in Runs(t) : r[2] - r[1] + 1 >= 4}

IsTokensOf(ws, t) ==
    /\ Len(ws) = Cardinality(KeptRuns(t))
    /\ \A r \in KeptRuns(t) :
           ws[Cardinality({q \in KeptRuns(t) : q[1] <= r[1]})]
               = SubSeq(t, r[1], r[2])

====
